---- MODULE Spec2Model ----
(***************************************************************************)
(* State-machine model of the money-request step screens:                  *)
(*   - IOURequestStepScan (index.native.js): camera permission handling,   *)
(*     rendering, camera capture and gallery pick;                         *)
(*   - IOURequestStepAmount: navigateToNextPage;                           *)
(*   - IOURequestStepWaypoint: validate.                                   *)
(* Promises are modelled as in-flight records that a later action          *)
(* resolves or rejects; every handler is one atomic action.                *)
(***************************************************************************)
EXTENDS Integers, Sequences, FiniteSets, TLC

\* Bounds of the model.
MaxQueries == 3
MaxCaptures == 2
MaxSubmits == 2

(***************************************************************************)
(* Values                                                                  *)
(***************************************************************************)
Undefined == "undefined"

\* RESULTS of react-native-permissions.
RESULTS == [UNAVAILABLE |-> "unavailable", DENIED |-> "denied", LIMITED |-> "limited",
            GRANTED |-> "granted", BLOCKED |-> "blocked"]

PermissionStatuses ==
    {RESULTS.UNAVAILABLE, RESULTS.DENIED, RESULTS.LIMITED, RESULTS.GRANTED, RESULTS.BLOCKED}

\* devices.back of useCameraDevices: no device yet, or the back camera.
NoDevice == "null"
Devices == {NoDevice, "back"}

\* The values AppState reports.
AppStates == {"active", "background", "inactive"}

\* CONST.IOU.OPTIMISTIC_TRANSACTION_ID and the transaction ids of the route.
OPTIMISTIC_TRANSACTION_ID == "1"
TransactionIDs == {OPTIMISTIC_TRANSACTION_ID, "t42"}

\* report.reportID: absent, empty, or a real id.
ReportIDs == {Undefined, "", "r7"}

\* JavaScript truthiness of a string-or-undefined value.
Truthy(x) == x # Undefined /\ x # ""

VARIABLES
    \* ---- IOURequestStepScan ----
    phase,                  \* "rendered" (before effects), "mounted", "unmounted"
    appState,               \* AppState.currentState
    subscribed,             \* the AppState 'change' listener is registered
    cameraPermissionStatus, \* useState(undefined)
    device,                 \* devices.back
    camera,                 \* camera.current is set (a camera instance is mounted)
    view,                   \* the set of views the last render produced
    queries,                \* permission queries in start order
    permissionsAlerts,      \* calls of FileUtils.showCameraPermissionsAlert
    transactionID,          \* route.params.transactionID
    report,                 \* report.reportID (shared with IOURequestStepAmount)
    captures,               \* shutter / gallery presses in start order
    \* ---- IOURequestStepAmount ----
    step,                   \* route.params.step
    submits,                \* submissions of the amount form in order
    \* ---- IOURequestStepWaypoint ----
    isOffline,              \* useNetwork().isOffline
    waypointIndex,          \* route.params.waypointIndex
    waypointAddress,        \* address stored for the current waypoint
    lastValidation          \* the last run of validate: <<>> or <<its inputs and errors>>

scanVars == <<phase, appState, subscribed, cameraPermissionStatus, device, camera, view,
              queries, permissionsAlerts>>
captureVars == <<transactionID, captures>>
amountVars == <<step, submits>>
waypointVars == <<isOffline, waypointIndex, waypointAddress, lastValidation>>
vars == <<scanVars, captureVars, report, amountVars, waypointVars>>

(***************************************************************************)
(* IOURequestStepScan: rendering                                           *)
(***************************************************************************)

\* Render with the loading indicator shown whenever permission is granted.
RenderLoadingWhenGranted(status, dev) ==
    IF status = Undefined
    THEN {}
    ELSE (IF status # RESULTS.GRANTED THEN {"permissionView"} ELSE {})
         \cup (IF status = RESULTS.GRANTED THEN {"loadingIndicator"} ELSE {})
         \cup (IF status = RESULTS.GRANTED /\ dev # NoDevice THEN {"camera"} ELSE {})
         \cup {"buttons"}

\* The render function: null while the status is unknown, else the three
\* conditional views plus the bottom row of buttons.
Render(status, dev) ==
    IF status = Undefined
    THEN {}
    ELSE (IF status # RESULTS.GRANTED THEN {"permissionView"} ELSE {})
         \cup (IF status = RESULTS.GRANTED /\ dev = NoDevice THEN {"loadingIndicator"} ELSE {})
         \cup (IF status = RESULTS.GRANTED /\ dev # NoDevice THEN {"camera"} ELSE {})
         \cup {"buttons"}

\* What is on screen: nothing once the screen is unmounted.
Rendered(ph, status, dev) == IF ph = "unmounted" THEN {} ELSE Render(status, dev)

\* ref={camera}: the ref is set exactly while NavigationAwareCamera is rendered.
CameraRef(v) == "camera" \in v

\* A state update followed by the re-render it causes.
SetCameraPermissionStatus(status) ==
    /\ cameraPermissionStatus' = status
    /\ view' = Rendered(phase, status, device)
    /\ camera' = CameraRef(view')

(***************************************************************************)
(* IOURequestStepScan: permission queries                                  *)
(***************************************************************************)

\* A query in flight: CameraPermission.getCameraPermissionStatus ("check")
\* or CameraPermission.requestCameraPermission ("request").
NewQuery(kind) == [kind |-> kind, outcome |-> "pending", status |-> Undefined]

PendingQueries(kind) ==
    {i \in 1..Len(queries) : queries[i].kind = kind /\ queries[i].outcome = "pending"}

\* refreshCameraPermissionStatus: starts a status check.
refreshCameraPermissionStatus(qs) == Append(qs, NewQuery("check"))

\* The effect run on mount: first check, then subscribe to AppState changes.
MountEffect ==
    /\ phase = "rendered"
    /\ phase' = "mounted"
    /\ queries' = refreshCameraPermissionStatus(queries)
    /\ subscribed' = TRUE
    /\ UNCHANGED <<appState, cameraPermissionStatus, device, camera, view, permissionsAlerts>>
    /\ UNCHANGED <<captureVars, report, amountVars, waypointVars>>

\* The listener refreshing on every change of the app state.
AppStateListenerAnyChange(s, qs) == refreshCameraPermissionStatus(qs)

\* The listener body: only a change to 'active' refreshes.
AppStateListener(s, qs) == IF s # "active" THEN qs ELSE refreshCameraPermissionStatus(qs)

\* AppState emits 'change' with the new state s; the listener runs if registered.
AppStateChange(s) ==
    /\ s # appState
    /\ (subscribed /\ s = "active") => Len(queries) < MaxQueries
    /\ appState' = s
    /\ queries' = IF subscribed THEN AppStateListener(s, queries) ELSE queries
    /\ UNCHANGED <<phase, subscribed, cameraPermissionStatus, device, camera, view,
                   permissionsAlerts>>
    /\ UNCHANGED <<captureVars, report, amountVars, waypointVars>>

\* The effect's cleanup: subscription.remove(); the screen leaves the tree.
Unmount ==
    /\ phase = "mounted"
    /\ phase' = "unmounted"
    /\ subscribed' = FALSE
    /\ view' = Rendered("unmounted", cameraPermissionStatus, device)
    /\ camera' = CameraRef(view')
    /\ UNCHANGED <<appState, cameraPermissionStatus, device, queries, permissionsAlerts>>
    /\ UNCHANGED <<captureVars, report, amountVars, waypointVars>>

\* getCameraPermissionStatus().then(setCameraPermissionStatus)
CheckResolved(i, s) ==
    /\ i \in PendingQueries("check")
    /\ queries' = [queries EXCEPT ![i] = [@ EXCEPT !.outcome = "resolved", !.status = s]]
    /\ SetCameraPermissionStatus(s)
    /\ UNCHANGED <<phase, appState, subscribed, device, permissionsAlerts>>
    /\ UNCHANGED <<captureVars, report, amountVars, waypointVars>>

\* The status check without its .catch handler: a rejection leaves the state alone.
CheckRejectedUnhandled(i) ==
    /\ i \in PendingQueries("check")
    /\ queries' = [queries EXCEPT ![i] = [@ EXCEPT !.outcome = "rejected"]]
    /\ UNCHANGED <<cameraPermissionStatus, view, camera>>
    /\ UNCHANGED <<phase, appState, subscribed, device, permissionsAlerts>>
    /\ UNCHANGED <<captureVars, report, amountVars, waypointVars>>

\* getCameraPermissionStatus().catch(() => setCameraPermissionStatus(UNAVAILABLE))
CheckRejected(i) ==
    /\ i \in PendingQueries("check")
    /\ queries' = [queries EXCEPT ![i] = [@ EXCEPT !.outcome = "rejected"]]
    /\ SetCameraPermissionStatus(RESULTS.UNAVAILABLE)
    /\ UNCHANGED <<phase, appState, subscribed, device, permissionsAlerts>>
    /\ UNCHANGED <<captureVars, report, amountVars, waypointVars>>

\* askForPermissions, up to the promise: the Continue button of the permission view.
AskForPermissions ==
    /\ "permissionView" \in view
    /\ Len(queries) < MaxQueries
    /\ queries' = Append(queries, NewQuery("request"))
    /\ UNCHANGED <<phase, appState, subscribed, cameraPermissionStatus, device, camera, view,
                   permissionsAlerts>>
    /\ UNCHANGED <<captureVars, report, amountVars, waypointVars>>

\* The .then handler of askForPermissions alerting for every status.
AlertsAfterRequestAlways(status, alerts) == alerts + 1

\* The alert count after the .then handler of askForPermissions saw `status`.
AlertsAfterRequest(status, alerts) == IF status = RESULTS.BLOCKED THEN alerts + 1 ELSE alerts

\* requestCameraPermission().then((status) => {...})
RequestResolved(i, s) ==
    /\ i \in PendingQueries("request")
    /\ queries' = [queries EXCEPT ![i] = [@ EXCEPT !.outcome = "resolved", !.status = s]]
    /\ SetCameraPermissionStatus(s)
    /\ permissionsAlerts' = AlertsAfterRequest(s, permissionsAlerts)
    /\ UNCHANGED <<phase, appState, subscribed, device>>
    /\ UNCHANGED <<captureVars, report, amountVars, waypointVars>>

\* requestCameraPermission().catch(() => setCameraPermissionStatus(UNAVAILABLE))
RequestRejected(i) ==
    /\ i \in PendingQueries("request")
    /\ queries' = [queries EXCEPT ![i] = [@ EXCEPT !.outcome = "rejected"]]
    /\ SetCameraPermissionStatus(RESULTS.UNAVAILABLE)
    /\ UNCHANGED <<phase, appState, subscribed, device, permissionsAlerts>>
    /\ UNCHANGED <<captureVars, report, amountVars, waypointVars>>

\* useCameraDevices reports another value of devices.back; the screen re-renders.
DeviceChange(d) ==
    /\ phase # "unmounted"
    /\ d # device
    /\ device' = d
    /\ view' = Rendered(phase, cameraPermissionStatus, d)
    /\ camera' = CameraRef(view')
    /\ UNCHANGED <<phase, appState, subscribed, cameraPermissionStatus, queries,
                   permissionsAlerts>>
    /\ UNCHANGED <<captureVars, report, amountVars, waypointVars>>

\* Values of the variables a specification does not exercise.
IdleCapture == transactionID = OPTIMISTIC_TRANSACTION_ID /\ captures = <<>>
IdleAmount == step = Undefined /\ submits = <<>>
IdleWaypoint ==
    /\ isOffline = FALSE
    /\ waypointIndex = "0"
    /\ waypointAddress = ""
    /\ lastValidation = <<>>

\* The scan screen after its first render, before its effect ran.
Init ==
    /\ phase = "rendered"
    /\ appState = "active"
    /\ subscribed = FALSE
    /\ cameraPermissionStatus = Undefined
    /\ device \in Devices
    /\ view = Rendered(phase, cameraPermissionStatus, device)
    /\ camera = CameraRef(view)
    /\ queries = <<>>
    /\ permissionsAlerts = 0
    /\ report = Undefined
    /\ IdleCapture
    /\ IdleAmount
    /\ IdleWaypoint

Next ==
    \/ MountEffect
    \/ \E s \in AppStates : AppStateChange(s)
    \/ Unmount
    \/ \E i \in 1..Len(queries), s \in PermissionStatuses : CheckResolved(i, s)
    \/ \E i \in 1..Len(queries) : CheckRejected(i)
    \/ AskForPermissions
    \/ \E i \in 1..Len(queries), s \in PermissionStatuses : RequestResolved(i, s)
    \/ \E i \in 1..Len(queries) : RequestRejected(i)
    \/ \E d \in Devices : DeviceChange(d)

Spec == Init /\ [][Next]_vars

(***************************************************************************)
(* IOURequestStepScan: camera capture and gallery pick                     *)
(***************************************************************************)

\* One press of the shutter ("camera") or of the gallery button ("gallery"):
\*   capture: "noCamera" | "pending" | "resolved" | "rejected" | "cancelled"
\*   read:    FileUtils.readFileAsync, "none" | "pending" | "resolved" | "rejected"
\*   calls:   the Alert / IOU / Navigation calls made for this press, in order.
NewCapture(source, capture, calls) ==
    [source |-> source, capture |-> capture, read |-> "none", calls |-> calls]

showCameraAlert(calls) == Append(calls, "Alert.alert")

\* takePhoto up to the promise: without a camera instance alert and return,
\* else camera.current.takePhoto(...) is in flight.
takePhoto(cam) ==
    IF ~cam
    THEN NewCapture("camera", "noCamera", showCameraAlert(<<>>))
    ELSE NewCapture("camera", "pending", <<>>)

\* The shutter is pressed.
PressShutter ==
    /\ "buttons" \in view
    /\ Len(captures) < MaxCaptures
    /\ captures' = Append(captures, takePhoto(camera))
    /\ UNCHANGED <<scanVars, transactionID, report, amountVars, waypointVars>>

\* The .then handler testing report.reportID before the transaction id.
TakePhotoThenReportFirst(txn, rep, c) ==
    LET c1 == [c EXCEPT !.capture = "resolved",
                        !.calls = Append(@, "setMoneyRequestReceipt")]
    IN  IF Truthy(rep)
        THEN [c1 EXCEPT !.calls = @ \o <<"setMoneyRequestParticipantsFromReport",
                                         "navigate:confirmation">>]
        ELSE IF txn # OPTIMISTIC_TRANSACTION_ID
        THEN [c1 EXCEPT !.read = "pending", !.calls = Append(@, "dismissModal")]
        ELSE [c1 EXCEPT !.calls = Append(@, "navigate:participants")]

\* The .then handler of camera.current.takePhoto.
TakePhotoThen(txn, rep, c) ==
    LET c1 == [c EXCEPT !.capture = "resolved",
                        !.calls = Append(@, "setMoneyRequestReceipt")]
    IN  IF txn # OPTIMISTIC_TRANSACTION_ID
        THEN [c1 EXCEPT !.read = "pending", !.calls = Append(@, "dismissModal")]
        ELSE IF Truthy(rep)
        THEN [c1 EXCEPT !.calls = @ \o <<"setMoneyRequestParticipantsFromReport",
                                         "navigate:confirmation">>]
        ELSE [c1 EXCEPT !.calls = Append(@, "navigate:participants")]

PendingCaptures(source) ==
    {i \in 1..Len(captures) : captures[i].source = source /\ captures[i].capture = "pending"}

PendingReads == {i \in 1..Len(captures) : captures[i].read = "pending"}

PhotoResolved(i) ==
    /\ i \in PendingCaptures("camera")
    /\ captures' = [captures EXCEPT ![i] = TakePhotoThen(transactionID, report, @)]
    /\ UNCHANGED <<scanVars, transactionID, report, amountVars, waypointVars>>

\* The .catch handler only logging the error.
TakePhotoCatchSilent(c) == [c EXCEPT !.capture = "rejected"]

\* The .catch handler of camera.current.takePhoto.
TakePhotoCatch(c) == [c EXCEPT !.capture = "rejected", !.calls = showCameraAlert(@)]

PhotoRejected(i) ==
    /\ i \in PendingCaptures("camera")
    /\ captures' = [captures EXCEPT ![i] = TakePhotoCatch(@)]
    /\ UNCHANGED <<scanVars, transactionID, report, amountVars, waypointVars>>

\* The read's .then handler dropping the receipt.
ReadFileThenNoReplace(c) == [c EXCEPT !.read = "resolved"]

\* readFileAsync(...).then((receipt) => IOU.replaceReceipt(...))
ReadFileThen(c) == [c EXCEPT !.read = "resolved", !.calls = Append(@, "replaceReceipt")]

ReadResolved(i) ==
    /\ i \in PendingReads
    /\ captures' = [captures EXCEPT ![i] = ReadFileThen(@)]
    /\ UNCHANGED <<scanVars, transactionID, report, amountVars, waypointVars>>

\* readFileAsync rejects: the promise has no rejection handler.
ReadRejected(i) ==
    /\ i \in PendingReads
    /\ captures' = [captures EXCEPT ![i].read = "rejected"]
    /\ UNCHANGED <<scanVars, transactionID, report, amountVars, waypointVars>>

\* The gallery button: openPicker({onPicked}).
PressGallery ==
    /\ "buttons" \in view
    /\ Len(captures) < MaxCaptures
    /\ captures' = Append(captures, NewCapture("gallery", "pending", <<>>))
    /\ UNCHANGED <<scanVars, transactionID, report, amountVars, waypointVars>>

\* onPicked of the attachment picker.
OnPicked(txn, rep, c) ==
    LET c1 == [c EXCEPT !.capture = "resolved",
                        !.calls = Append(@, "setMoneyRequestReceipt")]
    IN  IF txn # OPTIMISTIC_TRANSACTION_ID
        THEN [c1 EXCEPT !.calls = @ \o <<"replaceReceipt", "dismissModal">>]
        ELSE IF Truthy(rep)
        THEN [c1 EXCEPT !.calls = @ \o <<"setMoneyRequestParticipantsFromReport",
                                         "navigate:confirmation">>]
        ELSE [c1 EXCEPT !.calls = Append(@, "navigate:participants")]

Picked(i) ==
    /\ i \in PendingCaptures("gallery")
    /\ captures' = [captures EXCEPT ![i] = OnPicked(transactionID, report, @)]
    /\ UNCHANGED <<scanVars, transactionID, report, amountVars, waypointVars>>

\* The picker is closed without a file: onPicked is never called.
PickerCancelled(i) ==
    /\ i \in PendingCaptures("gallery")
    /\ captures' = [captures EXCEPT ![i].capture = "cancelled"]
    /\ UNCHANGED <<scanVars, transactionID, report, amountVars, waypointVars>>

\* The scan screen mounted with a known permission status, for any route and report.
InitCapture ==
    /\ phase = "mounted"
    /\ appState = "active"
    /\ subscribed = TRUE
    /\ cameraPermissionStatus \in PermissionStatuses
    /\ device \in Devices
    /\ view = Rendered(phase, cameraPermissionStatus, device)
    /\ camera = CameraRef(view)
    /\ queries = <<[kind |-> "check", outcome |-> "resolved", status |-> cameraPermissionStatus]>>
    /\ permissionsAlerts = 0
    /\ transactionID \in TransactionIDs
    /\ report \in ReportIDs
    /\ captures = <<>>
    /\ IdleAmount
    /\ IdleWaypoint

NextCapture ==
    \/ PressShutter
    \/ \E i \in 1..Len(captures) : PhotoResolved(i)
    \/ \E i \in 1..Len(captures) : PhotoRejected(i)
    \/ \E i \in 1..Len(captures) : ReadResolved(i)
    \/ \E i \in 1..Len(captures) : ReadRejected(i)
    \/ PressGallery
    \/ \E i \in 1..Len(captures) : Picked(i)
    \/ \E i \in 1..Len(captures) : PickerCancelled(i)
    \/ \E d \in Devices : DeviceChange(d)

SpecCapture == InitCapture /\ [][NextCapture]_vars

(***************************************************************************)
(* IOURequestStepAmount: navigateToNextPage                                *)
(***************************************************************************)

\* route.params.step: absent in the start flow, present (possibly empty) when
\* the screen is opened from the confirmation step.
Steps == {Undefined, "", "confirmation"}

\* The text of the amount input, one character per element.
AmountInputs ==
    { <<"7">>, <<"1", "2", ".", "5">>, <<"0", ".", "0", "7">>, <<"3", "0", ".", "4", "0">> }

DecimalDigits == <<"0", "1", "2", "3", "4", "5", "6", "7", "8", "9">>

DigitValue(c) == (CHOOSE k \in 1..Len(DecimalDigits) : DecimalDigits[k] = c) - 1

RECURSIVE DigitsToInt(_)
DigitsToInt(ds) ==
    IF ds = <<>> THEN 0
    ELSE DigitsToInt(SubSeq(ds, 1, Len(ds) - 1)) * 10 + DigitValue(ds[Len(ds)])

\* Number.parseFloat on a decimal literal: the integer part and the fraction digits.
ParseFloat(str) ==
    LET dots == {k \in 1..Len(str) : str[k] = "."}
        dot == IF dots = {} THEN Len(str) + 1 ELSE CHOOSE k \in dots : \A j \in dots : k <= j
    IN  [units |-> DigitsToInt(SubSeq(str, 1, dot - 1)),
         fraction |-> SubSeq(str, dot + 1, Len(str))]

\* CurrencyUtils.convertToBackendAmount: the amount in the smallest currency
\* unit, Math.round(amount * 100), for an amount of at most two fraction digits.
ConvertToBackendAmount(amount) ==
    LET padded == SubSeq(amount.fraction \o <<"0", "0">>, 1, 2)
    IN  amount.units * 100 + DigitsToInt(padded)

\* The step param tested for truthiness instead of definedness.
isStepTruthy(stepParam) == Truthy(stepParam)

isUserComingFromConfirmationStep(stepParam) == stepParam # Undefined

navigateToConfirmationStep(calls) == Append(calls, "navigate:confirmation")

\* navigateToNextPage: the calls it makes, in order, and the amount it stores.
navigateToNextPage(currentAmount, stepParam, rep) ==
    LET amountInSmallestCurrencyUnits == ConvertToBackendAmount(ParseFloat(currentAmount))
        stored == <<"setMoneeRequestAmount">>
    IN  [input |-> currentAmount,
         amount |-> amountInSmallestCurrencyUnits,
         calls |->
            IF isUserComingFromConfirmationStep(stepParam)
            THEN navigateToConfirmationStep(stored)
            ELSE IF Truthy(rep)
            THEN stored \o <<"autoAssignParticipants", "navigate:confirmation">>
            ELSE Append(stored, "navigate:participants")]

\* The amount form is submitted with the text `currentAmount`.
SubmitAmount(currentAmount) ==
    /\ Len(submits) < MaxSubmits
    /\ submits' = Append(submits, navigateToNextPage(currentAmount, step, report))
    /\ UNCHANGED <<scanVars, captureVars, report, step, waypointVars>>

\* The scan screen's variables in a specification that does not exercise it.
IdleScan ==
    /\ phase = "unmounted"
    /\ appState = "active"
    /\ subscribed = FALSE
    /\ cameraPermissionStatus = Undefined
    /\ device = NoDevice
    /\ view = {}
    /\ camera = FALSE
    /\ queries = <<>>
    /\ permissionsAlerts = 0

InitAmount ==
    /\ IdleScan
    /\ IdleCapture
    /\ IdleWaypoint
    /\ report \in ReportIDs
    /\ step \in Steps
    /\ submits = <<>>

NextAmount == \E a \in AmountInputs : SubmitAmount(a)

SpecAmount == InitAmount /\ [][NextAmount]_vars

(***************************************************************************)
(* IOURequestStepWaypoint: validate                                        *)
(***************************************************************************)

ValidAddresses == {"12 Main St", "5 Elm Rd"}

\* Texts a user can type or an address can hold.
Addresses == {""} \cup ValidAddresses \cup {"??", "#"}

\* A submitted form value: a text, or undefined when the key is missing.
FieldValues == Addresses \cup {Undefined}

WaypointIndexes == {"0", "1"}

\* `waypoint${waypointIndex}`
FieldKey(index) == <<"waypoint", index>>

FieldKeys == {FieldKey(index) : index \in WaypointIndexes}

AddressError == "bankAccount.error.address"
SelectSuggestedAddressError == "distance.errors.selectSuggestedAddress"

\* ValidationUtils.isValidAddress, as a property of the text.
IsValidAddress(value) == value \in ValidAddresses

\* const errors = {}
NoErrors == [k \in FieldKeys |-> <<>>]

\* ErrorUtils.addErrorMessage: one more message under inputID.
addErrorMessage(errors, inputID, message) ==
    [errors EXCEPT ![inputID] = Append(@, message)]

\* values[`waypoint${waypointIndex}`] || ''
WaypointValue(values, index) ==
    IF Truthy(values[FieldKey(index)]) THEN values[FieldKey(index)] ELSE ""

\* validate with the suggested-address check made regardless of connectivity.
validateIgnoringNetwork(values, index, offline, address) ==
    LET waypointValue == WaypointValue(values, index)
        errors1 ==
            IF offline /\ waypointValue # "" /\ ~IsValidAddress(waypointValue)
            THEN addErrorMessage(NoErrors, FieldKey(index), AddressError)
            ELSE NoErrors
    IN  IF waypointValue # "" /\ address # waypointValue
        THEN addErrorMessage(errors1, FieldKey(index), SelectSuggestedAddressError)
        ELSE errors1

validate(values, index, offline, address) ==
    LET waypointValue == WaypointValue(values, index)
        errors1 ==
            IF offline /\ waypointValue # "" /\ ~IsValidAddress(waypointValue)
            THEN addErrorMessage(NoErrors, FieldKey(index), AddressError)
            ELSE NoErrors
    IN  IF ~offline /\ waypointValue # "" /\ address # waypointValue
        THEN addErrorMessage(errors1, FieldKey(index), SelectSuggestedAddressError)
        ELSE errors1

\* The form runs validate on the submitted values.
Validate(values) ==
    /\ lastValidation' =
          <<[values |-> values, isOffline |-> isOffline, waypointAddress |-> waypointAddress,
             errors |-> validate(values, waypointIndex, isOffline, waypointAddress)]>>
    /\ UNCHANGED <<scanVars, captureVars, report, amountVars,
                   isOffline, waypointIndex, waypointAddress>>

\* useNetwork reports a change of connectivity.
NetworkChange ==
    /\ isOffline' = ~isOffline
    /\ UNCHANGED <<scanVars, captureVars, report, amountVars,
                   waypointIndex, waypointAddress, lastValidation>>

\* The transaction in the store changes (a waypoint saved or removed), so
\* lodashGet(currentWaypoint, 'address', '') yields another address.
WaypointAddressChange(address) ==
    /\ address # waypointAddress
    /\ waypointAddress' = address
    /\ UNCHANGED <<scanVars, captureVars, report, amountVars,
                   isOffline, waypointIndex, lastValidation>>

\* The values object of the form: the waypoint's own input, other keys absent.
FormValues(index) ==
    {[k \in FieldKeys |-> IF k = FieldKey(index) THEN v ELSE Undefined] : v \in FieldValues}

InitWaypoint ==
    /\ IdleScan
    /\ IdleCapture
    /\ IdleAmount
    /\ report = Undefined
    /\ isOffline \in BOOLEAN
    /\ waypointIndex \in WaypointIndexes
    /\ waypointAddress \in Addresses
    /\ lastValidation = <<>>

NextWaypoint ==
    \/ \E values \in FormValues(waypointIndex) : Validate(values)
    \/ NetworkChange
    \/ \E address \in Addresses : WaypointAddressChange(address)

SpecWaypoint == InitWaypoint /\ [][NextWaypoint]_vars

(***************************************************************************)
(* Properties                                                              *)
(***************************************************************************)

Range(seq) == {seq[k] : k \in 1..Len(seq)}

NavigationCalls == {"dismissModal", "navigate:confirmation", "navigate:participants"}

\* The positions of `calls` holding one of `ops`.
Positions(calls, ops) == {k \in 1..Len(calls) : calls[k] \in ops}

NumChecks(qs) == Cardinality({i \in 1..Len(qs) : qs[i].kind = "check"})

\* The status a completed query stored.
QueryResult(q) == IF q.outcome = "rejected" THEN RESULTS.UNAVAILABLE ELSE q.status

\* C1: a shutter press that finds no camera instance, or whose takePhoto
\* promise rejects, shows the camera-error alert, and for that press no
\* receipt is set and neither dismissModal nor navigate is called.
C1_CameraFailureOnlyAlerts ==
    \A i \in 1..Len(captures) :
        (captures[i].source = "camera" /\ captures[i].capture \in {"noCamera", "rejected"})
            => /\ "Alert.alert" \in Range(captures[i].calls)
               /\ "setMoneyRequestReceipt" \notin Range(captures[i].calls)
               /\ Range(captures[i].calls) \cap NavigationCalls = {}

\* C1 witness: one press found no camera and another press's takePhoto rejected.
C1_Witness ==
    \E i, j \in 1..Len(captures) :
        /\ captures[i].capture = "noCamera"
        /\ captures[j].capture = "rejected"
        /\ captures[j].calls = <<"Alert.alert">>

\* C2: when a permission request resolves with status S the stored status
\* becomes S and the permissions alert is shown iff S is BLOCKED; when it
\* rejects the stored status becomes UNAVAILABLE and no alert is shown.
C2_AskForPermissionsOutcome ==
    [][\A i \in 1..Len(queries) :
          (queries[i].kind = "request" /\ queries[i].outcome = "pending"
             /\ queries'[i].outcome # "pending")
          => IF queries'[i].outcome = "resolved"
             THEN /\ cameraPermissionStatus' = queries'[i].status
                  /\ permissionsAlerts' =
                        IF queries'[i].status = RESULTS.BLOCKED
                        THEN permissionsAlerts + 1 ELSE permissionsAlerts
             ELSE /\ cameraPermissionStatus' = RESULTS.UNAVAILABLE
                  /\ permissionsAlerts' = permissionsAlerts]_vars

\* C2 witness: a request has resolved BLOCKED with the alert shown, and
\* another request has resolved with a status that shows no alert.
C2_Witness ==
    \E i, j \in 1..Len(queries) :
        /\ queries[i].kind = "request" /\ queries[i].outcome = "resolved"
        /\ queries[i].status = RESULTS.BLOCKED
        /\ queries[j].kind = "request" /\ queries[j].outcome = "resolved"
        /\ queries[j].status = RESULTS.DENIED
        /\ permissionsAlerts = 1

\* The errors validate may leave under the waypoint's own key.
ExpectedWaypointErrors(value, offline, address) ==
    IF value = "" THEN <<>>
    ELSE IF offline /\ ~IsValidAddress(value) THEN <<AddressError>>
    ELSE IF ~offline /\ value # address THEN <<SelectSuggestedAddressError>>
    ELSE <<>>

\* C3: validate yields no error for an empty value; offline, exactly the
\* address error for a non-empty invalid address; online, exactly the
\* select-suggested-address error for a non-empty value that differs from the
\* stored address; no error otherwise; and never both errors.
C3_ValidateErrors ==
    \A n \in 1..Len(lastValidation) :
        LET r == lastValidation[n]
            key == FieldKey(waypointIndex)
            raw == r.values[key]
            value == IF raw = Undefined THEN "" ELSE raw
        IN  /\ r.errors[key] = ExpectedWaypointErrors(value, r.isOffline, r.waypointAddress)
            /\ ~({AddressError, SelectSuggestedAddressError} \subseteq Range(r.errors[key]))
            /\ \A k \in FieldKeys \ {key} : r.errors[k] = <<>>

\* C3 witness: validate ran offline on a non-empty invalid address and left
\* exactly the address error, although the value differs from the stored address.
C3_Witness ==
    \E n \in 1..Len(lastValidation) :
        /\ lastValidation[n].isOffline
        /\ lastValidation[n].values[FieldKey(waypointIndex)] = "??"
        /\ lastValidation[n].waypointAddress = "12 Main St"
        /\ lastValidation[n].errors[FieldKey(waypointIndex)] = <<AddressError>>

\* C4: once a successful camera capture or gallery pick is fully processed,
\* the receipt was set first and exactly one navigation call followed it: in
\* the edit flow the receipt was replaced and the modal dismissed; else with a
\* report id the participants were set from the report and the confirmation
\* step opened; else the participants step opened without setting participants.
\* The branch does not depend on the source of the capture.
C4_CaptureThenOneNavigation ==
    \A i \in 1..Len(captures) :
        (captures[i].capture = "resolved" /\ captures[i].read # "pending") =>
            LET calls == captures[i].calls
                navs == Positions(calls, NavigationCalls)
            IN  /\ calls[1] = "setMoneyRequestReceipt"
                /\ Cardinality(navs) = 1
                /\ \A k \in navs : k > 1
                /\ IF transactionID # OPTIMISTIC_TRANSACTION_ID
                   THEN /\ "replaceReceipt" \in Range(calls)
                        /\ "dismissModal" \in Range(calls)
                        /\ "setMoneyRequestParticipantsFromReport" \notin Range(calls)
                   ELSE IF Truthy(report)
                   THEN /\ "setMoneyRequestParticipantsFromReport" \in Range(calls)
                        /\ "navigate:confirmation" \in Range(calls)
                        /\ "replaceReceipt" \notin Range(calls)
                   ELSE /\ "navigate:participants" \in Range(calls)
                        /\ "setMoneyRequestParticipantsFromReport" \notin Range(calls)
                        /\ "replaceReceipt" \notin Range(calls)

\* The navigation call made for a fully processed capture.
NavigationOf(c) == {c.calls[k] : k \in Positions(c.calls, NavigationCalls)}

\* C4 as amended: as C4, except that in the edit flow the camera path
\* replaces the receipt only when reading the captured file succeeds (the
\* gallery path always does); both paths make the same navigation call.
C4_CaptureThenOneNavigationAmended ==
    \A i \in 1..Len(captures) :
        (captures[i].capture = "resolved" /\ captures[i].read # "pending") =>
            LET calls == captures[i].calls
                navs == Positions(calls, NavigationCalls)
            IN  /\ calls[1] = "setMoneyRequestReceipt"
                /\ Cardinality(navs) = 1
                /\ \A k \in navs : k > 1
                /\ IF transactionID # OPTIMISTIC_TRANSACTION_ID
                   THEN /\ "replaceReceipt" \in Range(calls)
                             <=> ~(captures[i].source = "camera"
                                     /\ captures[i].read = "rejected")
                        /\ "dismissModal" \in Range(calls)
                        /\ "setMoneyRequestParticipantsFromReport" \notin Range(calls)
                   ELSE IF Truthy(report)
                   THEN /\ "setMoneyRequestParticipantsFromReport" \in Range(calls)
                        /\ "navigate:confirmation" \in Range(calls)
                        /\ "replaceReceipt" \notin Range(calls)
                   ELSE /\ "navigate:participants" \in Range(calls)
                        /\ "setMoneyRequestParticipantsFromReport" \notin Range(calls)
                        /\ "replaceReceipt" \notin Range(calls)
                /\ \A j \in 1..Len(captures) :
                      (captures[j].capture = "resolved" /\ captures[j].read # "pending")
                          => NavigationOf(captures[j]) = NavigationOf(captures[i])

\* C4 witness: in the edit flow with a report id, a camera capture whose file
\* read failed and a gallery pick both dismissed the modal.
C4_Witness ==
    /\ transactionID # OPTIMISTIC_TRANSACTION_ID
    /\ Truthy(report)
    /\ \E i, j \in 1..Len(captures) :
          /\ captures[i].source = "camera" /\ captures[i].read = "rejected"
          /\ captures[i].calls = <<"setMoneyRequestReceipt", "dismissModal">>
          /\ captures[j].source = "gallery"
          /\ captures[j].calls = <<"setMoneyRequestReceipt", "replaceReceipt", "dismissModal">>

\* The navigation call of a submission of the amount form.
SubmitBranch(stepParam, rep) ==
    IF stepParam # Undefined THEN <<"setMoneeRequestAmount", "navigate:confirmation">>
    ELSE IF rep \notin {Undefined, ""}
    THEN <<"setMoneeRequestAmount", "autoAssignParticipants", "navigate:confirmation">>
    ELSE <<"setMoneeRequestAmount", "navigate:participants">>

\* C5: navigateToNextPage stores the amount before any navigation and then
\* navigates exactly once: with a step param to the confirmation step without
\* auto-assigning participants, even when the report has a reportID; else with
\* a reportID it auto-assigns participants and opens the confirmation step;
\* else it opens the participants step.
C5_AmountThenOneNavigation ==
    \A i \in 1..Len(submits) :
        LET calls == submits[i].calls
            navs == Positions(calls, NavigationCalls)
        IN  /\ Positions(calls, {"setMoneeRequestAmount"}) = {1}
            /\ Cardinality(navs) = 1
            /\ \A k \in navs : k > 1
            /\ calls = SubmitBranch(step, report)
            /\ step # Undefined => "autoAssignParticipants" \notin Range(calls)

\* C5 witness: the form was submitted with an empty step param and a report
\* that has a reportID, and the confirmation step opened without auto-assignment.
C5_Witness ==
    \E i \in 1..Len(submits) :
        /\ step = ""
        /\ report = "r7"
        /\ submits[i].amount = 1250
        /\ submits[i].calls = <<"setMoneeRequestAmount", "navigate:confirmation">>

\* C6: once no permission query is in flight, cameraPermissionStatus is the
\* result of the query that was started last.
C6_LastStartedQueryWins ==
    (Len(queries) > 0 /\ \A i \in 1..Len(queries) : queries[i].outcome # "pending")
        => cameraPermissionStatus = QueryResult(queries[Len(queries)])

\* C6 as amended: cameraPermissionStatus is the result of the query that
\* completed last: every completion stores its own result, whatever the order
\* the queries were started in, and nothing else changes the status.
C6_LastCompletedQueryWins ==
    [][/\ \A i \in 1..Len(queries) :
             (queries[i].outcome = "pending" /\ queries'[i].outcome # "pending")
                 => cameraPermissionStatus' = QueryResult(queries'[i])
       /\ cameraPermissionStatus' # cameraPermissionStatus
             => \E i \in 1..Len(queries) :
                   queries[i].outcome = "pending" /\ queries'[i].outcome # "pending"]_vars

\* C6 witness: no query is in flight, the first check was rejected, and the
\* status is not the result of the query started last.
C6_Witness ==
    /\ Len(queries) > 1
    /\ \A i \in 1..Len(queries) : queries[i].outcome # "pending"
    /\ queries[1].outcome = "rejected"
    /\ cameraPermissionStatus = RESULTS.UNAVAILABLE
    /\ QueryResult(queries[Len(queries)]) = RESULTS.GRANTED

\* C7: in the edit flow every capture that dismissed the modal has a
\* replaceReceipt call, made before dismissModal.
C7_ReplaceBeforeDismiss ==
    transactionID # OPTIMISTIC_TRANSACTION_ID =>
        \A i \in 1..Len(captures) :
            \A d \in Positions(captures[i].calls, {"dismissModal"}) :
                \E r \in Positions(captures[i].calls, {"replaceReceipt"}) : r < d

\* C7 as amended: in the edit flow a gallery pick calls replaceReceipt and
\* then dismissModal; a camera capture calls dismissModal first and
\* replaceReceipt after it, once the file read has resolved, and never when
\* the read fails.
C7_ReplaceAroundDismiss ==
    transactionID # OPTIMISTIC_TRANSACTION_ID =>
        \A i \in 1..Len(captures) :
            captures[i].capture = "resolved" =>
                IF captures[i].source = "gallery"
                THEN captures[i].calls =
                        <<"setMoneyRequestReceipt", "replaceReceipt", "dismissModal">>
                ELSE IF captures[i].read = "resolved"
                THEN captures[i].calls =
                        <<"setMoneyRequestReceipt", "dismissModal", "replaceReceipt">>
                ELSE captures[i].calls = <<"setMoneyRequestReceipt", "dismissModal">>

\* C7 witness: in the edit flow a camera capture has dismissed the modal and
\* its file read has resolved, so replaceReceipt came last.
C7_Witness ==
    /\ transactionID # OPTIMISTIC_TRANSACTION_ID
    /\ \E i \in 1..Len(captures) :
          /\ captures[i].source = "camera"
          /\ captures[i].read = "resolved"
          /\ captures[i].calls = <<"setMoneyRequestReceipt", "dismissModal", "replaceReceipt">>

ConditionalViews == {"permissionView", "loadingIndicator", "camera"}

\* C8: nothing is rendered while cameraPermissionStatus is undefined; once
\* it is known exactly one of the three views is shown: the permission view
\* iff the status is not GRANTED, the loading indicator iff it is GRANTED
\* without a device, the camera iff it is GRANTED with a device. No camera
\* instance is mounted while the status is not GRANTED.
C8_ExactlyOneView ==
    /\ phase # "unmounted" =>
          IF cameraPermissionStatus = Undefined
          THEN view = {}
          ELSE /\ Cardinality(view \cap ConditionalViews) = 1
               /\ "permissionView" \in view <=> cameraPermissionStatus # RESULTS.GRANTED
               /\ "loadingIndicator" \in view
                     <=> (cameraPermissionStatus = RESULTS.GRANTED /\ device = NoDevice)
               /\ "camera" \in view
                     <=> (cameraPermissionStatus = RESULTS.GRANTED /\ device # NoDevice)
    /\ camera => cameraPermissionStatus = RESULTS.GRANTED
    /\ "camera" \in view => cameraPermissionStatus = RESULTS.GRANTED

\* C8 witness: permission was granted while no device was available (loading
\* indicator), and the screen is mounted.
C8_Witness ==
    /\ phase = "mounted"
    /\ cameraPermissionStatus = RESULTS.GRANTED
    /\ device = NoDevice
    /\ view = {"loadingIndicator", "buttons"}
    /\ ~camera

\* C9: a status check starts on mount and on every app-state change to
\* 'active' while the screen is mounted, and on no other step; once the
\* screen is unmounted the listener is gone and no change starts a check.
C9_ChecksOnMountAndActive ==
    /\ [][NumChecks(queries') - NumChecks(queries) =
            IF phase = "rendered" /\ phase' = "mounted" THEN 1
            ELSE IF phase = "mounted" /\ appState' # appState /\ appState' = "active" THEN 1
            ELSE 0]_vars
    /\ [](phase = "unmounted" => ~subscribed)

\* C9 witness: the mount check and one check started by a change to
\* 'active' are the only checks, and the screen has been unmounted since.
C9_Witness ==
    /\ phase = "unmounted"
    /\ ~subscribed
    /\ appState = "active"
    /\ NumChecks(queries) = 2

====
